---- MODULE Spec2Model ----
(***************************************************************************)
(* Project schedule tracker (Flask + SQLAlchemy over SQLite).              *)
(*                                                                         *)
(* The entity store holds Project -> MacroStage -> Stage -> Task rows.     *)
(* Each request handler of app.py is one action; it runs to completion     *)
(* against the committed store.  A handler that returns before its         *)
(* db.session.commit() leaves the store as it was (the request-scoped      *)
(* session is discarded at teardown).                                      *)
(*                                                                         *)
(* Dates are proleptic ordinals (date.toordinal()); Null (0) is None.      *)
(* Row ids are SQLite rowids: max(existing) + 1.                           *)
(*                                                                         *)
(* A Project row holds the columns models.py declares: start_date,         *)
(* end_date and status.  app.py also reads status_manual,                  *)
(* status_manual_value and auto_shift_tasks of a Project; models.py        *)
(* declares none of them, so a Project loaded from the store has no such   *)
(* attribute and the read raises AttributeError.  An exception no handler  *)
(* catches ends the request with HTTP 500; what the request committed      *)
(* before stays, the rest of its session is discarded.                     *)
(***************************************************************************)
EXTENDS Integers, Sequences, FiniteSets, TLC

VARIABLES
    projects,     \* id -> Project row
    macrostages,  \* id -> MacroStage row
    stages,       \* id -> Stage row
    tasks,        \* id -> Task row
    today,        \* date.today(), fixed during a behaviour
    resp,         \* the response of the last request (redirect target and its parameters)
    h,            \* the call under evaluation in the pure-function specifications
    weekly_updates  \* id -> WeeklyUpdate row

vars == <<projects, macrostages, stages, tasks, today, resp, h, weekly_updates>>
store == <<projects, macrostages, stages, tasks, weekly_updates>>

-----------------------------------------------------------------------------
(* Bounds of the model *)

MaxProjects == 1
MaxMacrostages == 1
MaxStages == 1
MaxTasks == 2
\* the dates a form can carry are Epoch .. Epoch + MaxDay
MaxDay == 1
Epoch == 739000

(* Python's datetime.date range, as ordinals *)
DateMinOrdinal == 1
DateMaxOrdinal == 3652059

Null == 0
Days == Epoch .. (Epoch + MaxDay)
NDays == Days \cup {Null}
\* the old_start_date an apply_shift form is submitted with
RefDays == ((Epoch - 1) .. (Epoch + MaxDay)) \cup {Null}

\* the delta_days an apply_shift form is submitted with; HugeDelta takes every
\* date of the window past date.max
HugeDelta == 3000000
Deltas == (-MaxDay .. MaxDay) \cup {HugeDelta}

\* the model keeps the dates of the store inside the window of form dates:
\* a shift is requested only when no date leaves the window or the delta is HugeDelta
ShiftWithinWindow(T, delta_days, old_start_date) ==
    \/ delta_days = HugeDelta
    \/ old_start_date = Null
    \/ \A t \in DOMAIN T :
          (T[t].start_date # Null /\ T[t].start_date > old_start_date) =>
             /\ T[t].start_date + delta_days \in Days
             /\ T[t].end_date # Null => T[t].end_date + delta_days \in Days

\* the status values a project form is submitted with ("" = empty or invalid)
StatusInputs == {"Suspenso", ""}

-----------------------------------------------------------------------------
(* Helpers *)

Max(S) == CHOOSE x \in S : \A y \in S : y <= x
Min(S) == CHOOSE x \in S : \A y \in S : x <= y

\* min(xs) if xs else None
MinOrNone(S) == IF S = {} THEN Null ELSE Min(S)
\* max(xs) if xs else None
MaxOrNone(S) == IF S = {} THEN Null ELSE Max(S)

\* SQLite INTEGER PRIMARY KEY: the next rowid is the largest one in use plus one
NextId(rows) == IF DOMAIN rows = {} THEN 1 ELSE Max(DOMAIN rows) + 1

\* the table `rows` without the rows in `gone`
Without(rows, gone) == [i \in (DOMAIN rows) \ gone |-> rows[i]]

\* the table `rows` with row `id` added
With(rows, id, row) == [i \in (DOMAIN rows) \cup {id} |-> IF i = id THEN row ELSE rows[i]]

(* Responses.  "list": redirect to the list of projects (create_project,
   delete_project); "detail": redirect to the project page (also the answer to
   an ignored structural request); "error": redirect to the project page with
   an error message; "confirm": redirect to confirm_task_shift with its query
   parameters; "flash_success" / "flash_error" / "flash_info": the messages of
   apply_task_shift; "json_ok" / "json_error": the JSON answers of the reorder
   routes; "page": a rendered page; "500": an exception left the handler, raised at the given line of
   app.py. *)
NoResp == [kind |-> "none", task |-> 0, delta |-> 0, ref |-> Null]
Resp(kind) == [kind |-> kind, task |-> 0, delta |-> 0, ref |-> Null]
InternalServerError(line) == [kind |-> "500", line |-> line]

-----------------------------------------------------------------------------
(* Relationships (models.py) *)

\* Project.macrostages
project_macrostages(M, p) == {m \in DOMAIN M : M[m].project_id = p}
\* MacroStage.stages
macrostage_stages(S, m) == {s \in DOMAIN S : S[s].macrostage_id = m}
\* MacroStage.tasks: every task whose macrostage_id is m, stage-owned ones included
macrostage_tasks(T, m) == {t \in DOMAIN T : T[t].macrostage_id = m}
\* Stage.tasks
stage_tasks(T, s) == {t \in DOMAIN T : T[t].stage_id = s}

-----------------------------------------------------------------------------
(* Validation and status *)

\* variant: the comparison of the two dates is missing
validate_task_dates_unchecked(start_date, end_date) == TRUE

validate_task_dates(start_date, end_date) ==
    ~(start_date # Null /\ end_date # Null /\ start_date > end_date)

\* The <<start_date, end_date>> of the ten tasks create_project_from_template
\* stores, in the order it creates them.
\* current_date moves to the day after the end of each task.
template_task_dates(current_date) ==
    LET task1_start == current_date
        task1_end == task1_start + 6
        task2_start == task1_end + 1
        task2_end == task2_start + 4
        task3_start == task2_end + 1
        task3_end == task3_start + 4
        task4_start == task3_end + 1
        task4_end == task4_start + 19
        task5_start == task4_end + 1
        task5_end == task5_start + 9
        task6_start == task5_end + 1
        task6_end == task6_start + 9
        system_start_date == task6_end + 1
        task7_start == system_start_date
        task7_end == task7_start + 19
        task8_start == task7_end + 1
        task8_end == task8_start + 9
        task9_start == task8_end + 1
        task9_end == task9_start + 9
        task10_start == task9_end + 1
        task10_end == task10_start + 6
    IN << <<task1_start, task1_end>>, <<task2_start, task2_end>>,
          <<task3_start, task3_end>>, <<task4_start, task4_end>>,
          <<task5_start, task5_end>>, <<task6_start, task6_end>>,
          <<task7_start, task7_end>>, <<task8_start, task8_end>>,
          <<task9_start, task9_end>>, <<task10_start, task10_end>> >>

\* variant: a past end date is looked at before the start date
calculate_automatic_status_end_first(p, now) ==
    IF p.end_date # Null /\ p.end_date < now THEN "Concluído"
    ELSE IF p.start_date = Null THEN "A iniciar"
    ELSE IF p.start_date > now THEN "A iniciar"
    ELSE "Em andamento"

calculate_automatic_status(p, now) ==
    IF p.start_date = Null THEN "A iniciar"
    ELSE IF p.start_date > now THEN "A iniciar"
    ELSE IF p.end_date # Null /\ p.end_date < now THEN "Concluído"
    ELSE "Em andamento"

\* hasattr(obj, name): a Project object has the three mapped fields of its
\* row, and the attributes a handler assigned to the object in its request
hasattr(obj, name) == name \in DOMAIN obj

\* what a call returns when it raises AttributeError instead of returning
Raised == [raised |-> TRUE, value |-> "AttributeError", is_manual |-> FALSE]

\* 'value' and 'is_manual' of the dict; "" is None, which is falsy like "".
\* The read of project.status_manual comes first (and ... short-circuits).
get_project_status(p, now) ==
    IF ~hasattr(p, "status_manual") THEN Raised
    ELSE IF p.status_manual /\ ~hasattr(p, "status_manual_value") THEN Raised
    ELSE IF p.status_manual /\ p.status_manual_value # ""
    THEN [raised |-> FALSE, value |-> p.status_manual_value, is_manual |-> TRUE]
    ELSE [raised |-> FALSE, value |-> calculate_automatic_status(p, now), is_manual |-> FALSE]

\* variant: the tasks without end date are not counted
calculate_stage_status_dated_ends(T, s, now) ==
    LET ts == stage_tasks(T, s)
        start_dates == {t \in ts : T[t].start_date # Null}
        end_dates == {t \in ts : T[t].end_date # Null}
    IN IF ts = {} THEN "A iniciar"
       ELSE IF start_dates = {} THEN "A iniciar"
       ELSE IF \A t \in start_dates : T[t].start_date > now THEN "A iniciar"
       ELSE IF end_dates # {} /\ \A t \in end_dates : T[t].end_date <= now THEN "Concluído"
       ELSE "Em andamento"

calculate_stage_status(T, s, now) ==
    LET ts == stage_tasks(T, s)
        \* the tasks that contribute to the lists start_dates and end_dates
        start_dates == {t \in ts : T[t].start_date # Null}
        end_dates == {t \in ts : T[t].end_date # Null}
        all_ended == /\ end_dates # {}
                     /\ Cardinality(end_dates) = Cardinality(ts)
                     /\ \A t \in end_dates : T[t].end_date <= now
        has_started == \E t \in start_dates : T[t].start_date <= now
        has_future == \E t \in ts :
                         \/ (T[t].start_date # Null /\ T[t].start_date > now)
                         \/ (T[t].end_date # Null /\ T[t].end_date > now)
                         \/ (T[t].start_date # Null /\ T[t].start_date <= now
                             /\ T[t].end_date = Null)
    IN IF ts = {} THEN "A iniciar"
       ELSE IF start_dates = {} THEN "A iniciar"
       ELSE IF \A t \in start_dates : T[t].start_date > now THEN "A iniciar"
       ELSE IF all_ended THEN "Concluído"
       ELSE IF has_started /\ has_future THEN "Em andamento"
       ELSE IF has_started
       THEN (IF all_ended THEN "Concluído" ELSE "Em andamento")
       ELSE "Em andamento"

\* variant: without the first check that all tasks ended
calculate_stage_status_return_late_check(T, s, now) ==
    LET ts == stage_tasks(T, s)
        start_dates == {t \in ts : T[t].start_date # Null}
        end_dates == {t \in ts : T[t].end_date # Null}
        all_ended == /\ end_dates # {}
                     /\ Cardinality(end_dates) = Cardinality(ts)
                     /\ \A t \in end_dates : T[t].end_date <= now
        has_started == \E t \in start_dates : T[t].start_date <= now
        has_future == \E t \in ts :
                         \/ (T[t].start_date # Null /\ T[t].start_date > now)
                         \/ (T[t].end_date # Null /\ T[t].end_date > now)
                         \/ (T[t].start_date # Null /\ T[t].start_date <= now
                             /\ T[t].end_date = Null)
    IN IF ts = {} THEN [line |-> 230, value |-> "A iniciar"]
       ELSE IF start_dates = {} THEN [line |-> 238, value |-> "A iniciar"]
       ELSE IF \A t \in start_dates : T[t].start_date > now
       THEN [line |-> 242, value |-> "A iniciar"]
       ELSE IF has_started /\ has_future THEN [line |-> 270, value |-> "Em andamento"]
       ELSE IF has_started
       THEN (IF all_ended THEN [line |-> 276, value |-> "Concluído"]
             ELSE [line |-> 278, value |-> "Em andamento"])
       ELSE [line |-> 281, value |-> "Em andamento"]

\* calculate_stage_status with the line of app.py whose return statement gave the value
calculate_stage_status_return(T, s, now) ==
    LET ts == stage_tasks(T, s)
        start_dates == {t \in ts : T[t].start_date # Null}
        end_dates == {t \in ts : T[t].end_date # Null}
        all_ended == /\ end_dates # {}
                     /\ Cardinality(end_dates) = Cardinality(ts)
                     /\ \A t \in end_dates : T[t].end_date <= now
        has_started == \E t \in start_dates : T[t].start_date <= now
        has_future == \E t \in ts :
                         \/ (T[t].start_date # Null /\ T[t].start_date > now)
                         \/ (T[t].end_date # Null /\ T[t].end_date > now)
                         \/ (T[t].start_date # Null /\ T[t].start_date <= now
                             /\ T[t].end_date = Null)
    IN IF ts = {} THEN [line |-> 230, value |-> "A iniciar"]
       ELSE IF start_dates = {} THEN [line |-> 238, value |-> "A iniciar"]
       ELSE IF \A t \in start_dates : T[t].start_date > now
       THEN [line |-> 242, value |-> "A iniciar"]
       ELSE IF all_ended THEN [line |-> 246, value |-> "Concluído"]
       ELSE IF has_started /\ has_future THEN [line |-> 270, value |-> "Em andamento"]
       ELSE IF has_started
       THEN (IF all_ended THEN [line |-> 276, value |-> "Concluído"]
             ELSE [line |-> 278, value |-> "Em andamento"])
       ELSE [line |-> 281, value |-> "Em andamento"]

-----------------------------------------------------------------------------
(* Progress percentage.  Python computes int((elapsed_days / total_days) * 100)
   in binary64 floating point: the quotient of two ints is the correctly
   rounded double, the product with 100 is rounded again, int() truncates.
   The 53-bit significands do not fit the integers of the model checker, so
   they are kept as sequences of LimbCount digits in base LimbBase, most
   significant first. *)
SignificandBits == 53
LimbBase == 4096
LimbCount == 6

RECURSIVE Pow2(_)
Pow2(n) == IF n = 0 THEN 1 ELSE 2 * Pow2(n - 1)

big_of(a) == [i \in 1..LimbCount |-> IF i = LimbCount THEN a ELSE 0]

\* n * k + carry for a small k, from the least significant limb i up
RECURSIVE big_mul_from(_, _, _, _)
big_mul_from(n, k, i, carry) ==
    IF i = 0 THEN n
    ELSE LET v == n[i] * k + carry
         IN big_mul_from([n EXCEPT ![i] = v % LimbBase], k, i - 1, v \div LimbBase)

big_mul(n, k) == big_mul_from(n, k, LimbCount, 0)
big_add(n, c) == big_mul_from(n, 1, LimbCount, c)

\* [q, r] with n = q * k + r for a small k, from the most significant limb i down
RECURSIVE big_divmod_from(_, _, _, _)
big_divmod_from(n, k, i, r) ==
    IF i > LimbCount THEN [q |-> n, r |-> r]
    ELSE LET v == r * LimbBase + n[i]
         IN big_divmod_from([n EXCEPT ![i] = v \div k], k, i + 1, v % k)

big_divmod(n, k) == big_divmod_from(n, k, 1, 0)

\* n * 2^bits and n \div 2^bits, at most 12 bits at a time
RECURSIVE big_shl(_, _)
big_shl(n, bits) ==
    IF bits = 0 THEN n
    ELSE IF bits > 12 THEN big_shl(big_mul(n, Pow2(12)), bits - 12)
    ELSE big_mul(n, Pow2(bits))

RECURSIVE big_shr(_, _)
big_shr(n, bits) ==
    IF bits = 0 THEN n
    ELSE IF bits > 12 THEN big_shr(big_divmod(n, Pow2(12)).q, bits - 12)
    ELSE big_divmod(n, Pow2(bits)).q

big_is_odd(n) == n[LimbCount] % 2 = 1
big_is_zero(n) == \A i \in 1..LimbCount : n[i] = 0
\* the value of an n below LimbBase^2
big_to_int(n) == n[LimbCount - 1] * LimbBase + n[LimbCount]

\* The double a / b for ints 0 < a < b, as [m, z]: its value is
\* m * 2^-(z + 53); z is the number of zero bits after the binary point.
float_div(a, b) ==
    LET z == CHOOSE k \in 0..12 : a * Pow2(k) < b /\ a * Pow2(k + 1) >= b
        d == big_divmod(big_shl(big_of(a), z + SignificandBits), b)
        \* round to nearest, ties to even
        up == 2 * d.r > b \/ (2 * d.r = b /\ big_is_odd(d.q))
    IN [m |-> IF up THEN big_add(d.q, 1) ELSE d.q, z |-> z]

\* int(x * 100) for the double x = [m, z]: the product is rounded to 53 bits
\* (nearest, ties to even) and the integer part of the rounded product taken
float_mul_100_to_int(x) ==
    LET product == big_mul(x.m, 100)
        \* the product has 59 or 60 bits
        drop == IF big_is_zero(big_shr(product, 59)) THEN 6 ELSE 7
        d == big_divmod(product, Pow2(drop))
        up == 2 * d.r > Pow2(drop) \/ (2 * d.r = Pow2(drop) /\ big_is_odd(d.q))
        rounded == IF up THEN big_add(d.q, 1) ELSE d.q
    IN big_to_int(big_shr(rounded, x.z + SignificandBits - drop))

\* what calculate_project_progress returns for None
NoProgress == Null - 1

calculate_project_progress(start_date, end_date, current_date) ==
    IF start_date = Null \/ end_date = Null THEN NoProgress
    ELSE IF current_date < start_date THEN 0
    ELSE IF current_date > end_date THEN 100
    ELSE IF start_date = end_date THEN 100
    ELSE LET total_days == end_date - start_date
             elapsed_days == current_date - start_date
             \* 0 / total_days is 0.0 and total_days / total_days is 1.0
             progress == IF elapsed_days = 0 THEN 0
                         ELSE IF elapsed_days = total_days THEN 100
                         ELSE float_mul_100_to_int(float_div(elapsed_days, total_days))
         IN Max({0, Min({100, progress})})

-----------------------------------------------------------------------------
(* Aggregation engine *)

\* variant: the latest start date is taken instead of the earliest
recalculate_stage_latest_start(T, S, s) ==
    LET ts == stage_tasks(T, s)
        start_dates == {T[t].start_date : t \in ts} \ {Null}
        end_dates == {T[t].end_date : t \in ts} \ {Null}
    IN [S EXCEPT ![s].start_date = MaxOrNone(start_dates),
                 ![s].end_date = MaxOrNone(end_dates)]

\* variant: only the tasks that have both dates are folded
recalculate_stage_dated_only(T, S, s) ==
    LET ts == {t \in stage_tasks(T, s) : T[t].start_date # Null /\ T[t].end_date # Null}
    IN [S EXCEPT ![s].start_date = MinOrNone({T[t].start_date : t \in ts}),
                 ![s].end_date = MaxOrNone({T[t].end_date : t \in ts})]

recalculate_stage(T, S, s) ==
    LET ts == stage_tasks(T, s)
        start_dates == {T[t].start_date : t \in ts} \ {Null}
        end_dates == {T[t].end_date : t \in ts} \ {Null}
    IN [S EXCEPT ![s].start_date = MinOrNone(start_dates),
                 ![s].end_date = MaxOrNone(end_dates)]

recalculate_macrostage(T, S, M, m) ==
    LET ss == macrostage_stages(S, m)
        ts == macrostage_tasks(T, m)
        start_dates == ({S[s].start_date : s \in ss} \cup {T[t].start_date : t \in ts}) \ {Null}
        end_dates == ({S[s].end_date : s \in ss} \cup {T[t].end_date : t \in ts}) \ {Null}
    IN [M EXCEPT ![m].start_date = MinOrNone(start_dates),
                 ![m].end_date = MaxOrNone(end_dates)]

recalculate_project(M, P, p) ==
    LET ms == project_macrostages(M, p)
        start_dates == {M[m].start_date : m \in ms} \ {Null}
        end_dates == {M[m].end_date : m \in ms} \ {Null}
    IN [P EXCEPT ![p].start_date = MinOrNone(start_dates),
                 ![p].end_date = MaxOrNone(end_dates)]

\* The projects of the session after recalculate_project_status(project);
\* raised: the read of project.status_manual raised AttributeError and the
\* session is as it was.
recalculate_project_status(P, p, now) ==
    IF ~hasattr(P[p], "status_manual") THEN [raised |-> TRUE, P |-> P]
    ELSE IF ~P[p].status_manual
    THEN [raised |-> FALSE, P |-> [P EXCEPT ![p].status = calculate_automatic_status(P[p], now)]]
    ELSE [raised |-> FALSE, P |-> P]

\* The stored tables after the cascade that starts at stage s.  raised: an
\* exception left the function before its db.session.commit(); nothing of
\* what it computed is stored.
recalculate_all_from_stage(T, S, M, P, s, now) ==
    LET m == S[s].macrostage_id
        p == M[m].project_id
        S1 == recalculate_stage(T, S, s)
        M1 == recalculate_macrostage(T, S1, M, m)
        P1 == recalculate_project(M1, P, p)
        P2 == recalculate_project_status(P1, p, now)
    IN IF P2.raised THEN [raised |-> TRUE, S |-> S, M |-> M, P |-> P]
       ELSE [raised |-> FALSE, S |-> S1, M |-> M1, P |-> P2.P]

\* the stored tables after the cascade that starts at macrostage m
recalculate_all_from_macrostage(T, S, M, P, m, now) ==
    LET p == M[m].project_id
        M1 == recalculate_macrostage(T, S, M, m)
        P1 == recalculate_project(M1, P, p)
        P2 == recalculate_project_status(P1, p, now)
    IN IF P2.raised THEN [raised |-> TRUE, S |-> S, M |-> M, P |-> P]
       ELSE [raised |-> FALSE, S |-> S, M |-> M1, P |-> P2.P]

-----------------------------------------------------------------------------
(* Shift planner *)

\* variant: the start date is looked at before the end date
calculate_task_shift_delta_start_first(old_start_date, old_end_date, new_start_date, new_end_date) ==
    IF old_start_date # Null /\ new_start_date # Null /\ new_start_date - old_start_date # 0
    THEN <<new_start_date - old_start_date, old_start_date>>
    ELSE IF old_end_date # Null /\ new_end_date # Null /\ new_end_date - old_end_date # 0
    THEN <<new_end_date - old_end_date, old_start_date>>
    ELSE <<0, Null>>

\* returns <<delta_days, reference_start_date>>
calculate_task_shift_delta(old_start_date, old_end_date, new_start_date, new_end_date) ==
    IF old_end_date # Null /\ new_end_date # Null /\ new_end_date - old_end_date # 0
    THEN <<new_end_date - old_end_date, old_start_date>>
    ELSE IF old_start_date # Null /\ new_start_date # Null /\ new_start_date - old_start_date # 0
    THEN <<new_start_date - old_start_date, old_start_date>>
    ELSE IF /\ old_end_date # Null /\ new_end_date # Null
            /\ old_start_date # Null /\ new_start_date # Null
            /\ new_end_date - old_end_date # 0
            /\ new_start_date - old_start_date # 0
            /\ new_end_date - old_end_date # new_start_date - old_start_date
    THEN <<new_end_date - old_end_date, old_start_date>>
    ELSE <<0, Null>>

\* variant: without the rule of the start dates
calculate_task_shift_delta_return_end_only(old_start_date, old_end_date, new_start_date, new_end_date) ==
    IF old_end_date # Null /\ new_end_date # Null /\ new_end_date - old_end_date # 0
    THEN [line |-> 437, value |-> <<new_end_date - old_end_date, old_start_date>>]
    ELSE IF /\ old_end_date # Null /\ new_end_date # Null
            /\ old_start_date # Null /\ new_start_date # Null
            /\ new_end_date - old_end_date # 0
            /\ new_start_date - old_start_date # 0
            /\ new_end_date - old_end_date # new_start_date - old_start_date
    THEN [line |-> 453, value |-> <<new_end_date - old_end_date, old_start_date>>]
    ELSE [line |-> 456, value |-> <<0, Null>>]

\* calculate_task_shift_delta with the line of app.py whose return statement gave the value
calculate_task_shift_delta_return(old_start_date, old_end_date, new_start_date, new_end_date) ==
    IF old_end_date # Null /\ new_end_date # Null /\ new_end_date - old_end_date # 0
    THEN [line |-> 437, value |-> <<new_end_date - old_end_date, old_start_date>>]
    ELSE IF old_start_date # Null /\ new_start_date # Null /\ new_start_date - old_start_date # 0
    THEN [line |-> 444, value |-> <<new_start_date - old_start_date, old_start_date>>]
    ELSE IF /\ old_end_date # Null /\ new_end_date # Null
            /\ old_start_date # Null /\ new_start_date # Null
            /\ new_end_date - old_end_date # 0
            /\ new_start_date - old_start_date # 0
            /\ new_end_date - old_end_date # new_start_date - old_start_date
    THEN [line |-> 453, value |-> <<new_end_date - old_end_date, old_start_date>>]
    ELSE [line |-> 456, value |-> <<0, Null>>]

\* the rows the query of find_subsequent_tasks selects
subsequent_rows(T, M, project_id, reference_start_date, exclude_task_id) ==
    {t \in DOMAIN T : /\ M[T[t].macrostage_id].project_id = project_id
                      /\ T[t].start_date # Null
                      /\ T[t].start_date > reference_start_date
                      /\ t # exclude_task_id}

\* variant: ORDER BY position alone
task_order_le_by_position(T, a, b) == T[a].position <= T[b].position

\* ORDER BY start_date, position
task_order_le(T, a, b) ==
    \/ T[a].start_date < T[b].start_date
    \/ (T[a].start_date = T[b].start_date /\ T[a].position <= T[b].position)

\* the lists that hold each of rows once, in ORDER BY order; SQL leaves the
\* order of rows with equal keys open
RECURSIVE ordered_lists(_, _)
ordered_lists(T, rows) ==
    IF rows = {} THEN {<<>>}
    ELSE UNION {{<<first>> \o q : q \in ordered_lists(T, rows \ {first})} :
                   first \in {a \in rows : \A b \in rows : task_order_le(T, a, b)}}

\* The lists find_subsequent_tasks may return: the selected rows in ORDER BY order.
find_subsequent_tasks(T, M, project_id, reference_start_date, exclude_task_id) ==
    IF reference_start_date = Null THEN {<<>>}
    ELSE ordered_lists(T, subsequent_rows(T, M, project_id, reference_start_date,
                                          exclude_task_id))

\* date + timedelta(days=delta) raises OverflowError outside date.min .. date.max
date_overflows(d, delta) == d + delta < DateMinOrdinal \/ d + delta > DateMaxOrdinal

\* variant: start_date is always assigned first
shift_writes_start_first(row, new_start_date, new_end_date, delta_days) ==
    LET r1 == IF new_start_date # Null THEN [row EXCEPT !.start_date = new_start_date] ELSE row
        r2 == IF new_end_date # Null THEN [r1 EXCEPT !.end_date = new_end_date] ELSE r1
    IN <<r1, r2>>

\* The rows a task goes through while apply_task_shift assigns its two date
\* fields: end_date first when postponing, start_date first when advancing.
shift_writes(row, new_start_date, new_end_date, delta_days) ==
    IF delta_days > 0
    THEN LET r1 == IF new_end_date # Null THEN [row EXCEPT !.end_date = new_end_date] ELSE row
             r2 == IF new_start_date # Null THEN [r1 EXCEPT !.start_date = new_start_date] ELSE r1
         IN <<r1, r2>>
    ELSE LET r1 == IF new_start_date # Null THEN [row EXCEPT !.start_date = new_start_date] ELSE row
             r2 == IF new_end_date # Null THEN [r1 EXCEPT !.end_date = new_end_date] ELSE r1
         IN <<r1, r2>>

\* The loop of apply_task_shift over the list q from index i on, on the
\* session's tasks T.  ok = FALSE: an exception left the loop (the date
\* arithmetic overflowed, or the shifted start is after the shifted end);
\* T is then the session's state at the raise.
RECURSIVE shift_loop(_, _, _, _)
shift_loop(T, q, i, delta_days) ==
    IF i > Len(q) THEN [ok |-> TRUE, T |-> T]
    ELSE LET t == q[i]
             sd == T[t].start_date
             ed == T[t].end_date
         IN IF \/ (sd # Null /\ date_overflows(sd, delta_days))
               \/ (ed # Null /\ date_overflows(ed, delta_days))
            THEN [ok |-> FALSE, T |-> T]
            ELSE LET new_start_date == IF sd # Null THEN sd + delta_days ELSE Null
                     new_end_date == IF ed # Null THEN ed + delta_days ELSE Null
                 IN IF new_start_date # Null /\ new_end_date # Null /\ new_start_date > new_end_date
                    THEN [ok |-> FALSE, T |-> T]
                    ELSE shift_loop(
                            [T EXCEPT ![t] = shift_writes(T[t], new_start_date, new_end_date, delta_days)[2]],
                            q, i + 1, delta_days)

\* the tables after apply_task_shift recalculated the stages and macrostages
\* of the shifted tasks, then the project; raised: recalculate_project_status
\* raised and the handler's except clause rolls the session back
recalculate_after_shift(T, S, M, P, shifted, p, now) ==
    LET affected_stages == {T[t].stage_id : t \in shifted} \ {0}
        affected_macrostages == {T[t].macrostage_id : t \in shifted}
        S1 == [s \in DOMAIN S |-> IF s \in affected_stages
                                  THEN recalculate_stage(T, S, s)[s] ELSE S[s]]
        M1 == [m \in DOMAIN M |-> IF m \in affected_macrostages
                                  THEN recalculate_macrostage(T, S1, M, m)[m] ELSE M[m]]
        P1 == recalculate_project(M1, P, p)
        P2 == recalculate_project_status(P1, p, now)
    IN IF P2.raised THEN [raised |-> TRUE, S |-> S, M |-> M, P |-> P]
       ELSE [raised |-> FALSE, S |-> S1, M |-> M1, P |-> P2.P]

-----------------------------------------------------------------------------
(* Initial state: the empty database *)

Init ==
    /\ projects = <<>>
    /\ macrostages = <<>>
    /\ stages = <<>>
    /\ tasks = <<>>
    /\ today = Epoch + 1
    /\ resp = NoResp
    /\ h = [fn |-> "none"]
    /\ weekly_updates = <<>>

-----------------------------------------------------------------------------
(* Request handlers *)

\* the names of the ten tasks of the template, in the order they are created
template_task_names ==
    << "Reuniões de alinhamentos iniciais com o demandante e definição da Equipe Automatiza que irá atuar no Projeto",
       "Análise dos documentos e informações repassadas pelo demandante",
       "Avaliação de quais ferramentas e tecnologias poderão ser utilizadas para solucionar o desafio",
       "Desenvolver e testar solução localmente",
       "Testar solução com o demandante e realizar alterações necessárias",
       "Implantar versão final da solução",
       "Desenvolver e testar solução localmente",
       "Testar solução com o demandante e realizar alterações necessárias",
       "Implantar versão final da solução",
       "Reuniões de alinhamentos finais com o demandante" >>

\* the structure_type of the four macrostages of the template
template_macrostage_structures == <<"tasks", "tasks", "stages", "tasks">>

\* <<stage, macrostage, position>> of the ten tasks of the template: the
\* stage (0: none) and the macrostage by their number within the template
template_task_owners ==
    << <<0, 1, 1>>, <<0, 2, 1>>, <<0, 2, 2>>,
       <<1, 3, 1>>, <<1, 3, 2>>, <<1, 3, 3>>,
       <<2, 3, 1>>, <<2, 3, 2>>, <<2, 3, 3>>,
       <<0, 4, 1>> >>

\* create_project_from_template: the project, its four macrostages, the two
\* stages of the third macrostage and the ten tasks are committed; the
\* recalculations follow, and what they computed is stored by a second commit
\* unless one of them raised.
create_project_from_template(T, S, M, P, current_date) ==
    LET project == NextId(P)
        m0 == NextId(M) - 1
        s0 == NextId(S) - 1
        t0 == NextId(T) - 1
        dates == template_task_dates(current_date)
        P1 == With(P, project, [start_date |-> Null, end_date |-> Null, status |-> ""])
        M1 == [i \in (DOMAIN M) \cup ((m0 + 1)..(m0 + 4)) |->
                  IF i \in DOMAIN M THEN M[i]
                  ELSE [project_id |-> project, position |-> i - m0,
                        structure_type |-> template_macrostage_structures[i - m0],
                        start_date |-> Null, end_date |-> Null]]
        S1 == [i \in (DOMAIN S) \cup ((s0 + 1)..(s0 + 2)) |->
                  IF i \in DOMAIN S THEN S[i]
                  ELSE [macrostage_id |-> m0 + 3, position |-> i - s0,
                        start_date |-> Null, end_date |-> Null]]
        T1 == [i \in (DOMAIN T) \cup ((t0 + 1)..(t0 + 10)) |->
                  IF i \in DOMAIN T THEN T[i]
                  ELSE LET owner == template_task_owners[i - t0]
                       IN [stage_id |-> IF owner[1] = 0 THEN 0 ELSE s0 + owner[1],
                           macrostage_id |-> m0 + owner[2],
                           name |-> template_task_names[i - t0],
                           start_date |-> dates[i - t0][1],
                           end_date |-> dates[i - t0][2],
                           position |-> owner[3]]]
        S2 == recalculate_stage(T1, recalculate_stage(T1, S1, s0 + 1), s0 + 2)
        M2 == recalculate_macrostage(T1, S2,
                 recalculate_macrostage(T1, S2,
                    recalculate_macrostage(T1, S2,
                       recalculate_macrostage(T1, S2, M1, m0 + 1), m0 + 2), m0 + 3), m0 + 4)
        P2 == recalculate_project(M2, P1, project)
        P3 == recalculate_project_status(P2, project, current_date)
    IN IF P3.raised THEN [raised |-> TRUE, T |-> T1, S |-> S1, M |-> M1, P |-> P1]
       ELSE [raised |-> FALSE, T |-> T1, S |-> S2, M |-> M2, P |-> P3.P]

\* POST /projects/create; has_name: the form's name is not blank;
\* project_type: "template" or anything else (blank)
CreateProject(has_name, project_type) ==
    /\ IF ~has_name
       THEN /\ resp' = Resp("list")
            /\ UNCHANGED <<projects, macrostages, stages, tasks>>
       ELSE IF project_type = "template"
       THEN LET r == create_project_from_template(tasks, stages, macrostages, projects, today)
            IN /\ tasks' = r.T
               /\ stages' = r.S
               /\ macrostages' = r.M
               /\ projects' = r.P
               /\ resp' = IF r.raised THEN InternalServerError(367) ELSE Resp("list")
       ELSE /\ projects' = With(projects, NextId(projects),
                   [start_date |-> Null, end_date |-> Null, status |-> ""])
            /\ resp' = Resp("list")
            /\ UNCHANGED <<macrostages, stages, tasks>>
    /\ UNCHANGED <<today, h, weekly_updates>>

\* GET /projects/<id>: the page shows the effective status
ProjectDetail(p) ==
    /\ p \in DOMAIN projects
    /\ LET project_status == get_project_status(projects[p], today)
       IN resp' = IF project_status.raised THEN InternalServerError(192) ELSE Resp("page")
    /\ UNCHANGED <<store, today, h>>

\* GET /projects/<id>/export: the report holds the effective status
ExportProjectDetail(p) ==
    /\ p \in DOMAIN projects
    /\ LET project_status == get_project_status(projects[p], today)
       IN resp' = IF project_status.raised THEN InternalServerError(192) ELSE Resp("page")
    /\ UNCHANGED <<store, today, h>>

\* POST /macrostages/create: the macrostage is committed, then the project recalculated
CreateMacrostage(p) ==
    /\ p \in DOMAIN projects
    /\ LET existing_positions == {macrostages[m].position : m \in project_macrostages(macrostages, p)}
           next_position == IF existing_positions = {} THEN 1 ELSE Max(existing_positions) + 1
           M1 == With(macrostages, NextId(macrostages),
                      [project_id |-> p, position |-> next_position, structure_type |-> "",
                       start_date |-> Null, end_date |-> Null])
           P1 == recalculate_project(M1, projects, p)
           P2 == recalculate_project_status(P1, p, today)
       IN /\ macrostages' = M1
          /\ projects' = IF P2.raised THEN projects ELSE P2.P
          /\ resp' = IF P2.raised THEN InternalServerError(367) ELSE Resp("detail")
    /\ UNCHANGED <<stages, tasks, today, h, weekly_updates>>

\* POST /stages/create: the stage and the structure_type are committed, then
\* the macrostage and the project recalculated
CreateStage(m) ==
    /\ m \in DOMAIN macrostages
    /\ IF macrostages[m].structure_type = "tasks"
       THEN /\ resp' = Resp("detail")
            /\ UNCHANGED <<projects, macrostages, stages>>
       ELSE LET M0 == [macrostages EXCEPT ![m].structure_type = "stages"]
                existing_positions == {stages[s].position : s \in macrostage_stages(stages, m)}
                next_position == IF existing_positions = {} THEN 1 ELSE Max(existing_positions) + 1
                S1 == With(stages, NextId(stages),
                           [macrostage_id |-> m, position |-> next_position,
                            start_date |-> Null, end_date |-> Null])
                p == macrostages[m].project_id
                M1 == recalculate_macrostage(tasks, S1, M0, m)
                P1 == recalculate_project(M1, projects, p)
                P2 == recalculate_project_status(P1, p, today)
            IN /\ stages' = S1
               /\ macrostages' = IF P2.raised THEN M0 ELSE M1
               /\ projects' = IF P2.raised THEN projects ELSE P2.P
               /\ resp' = IF P2.raised THEN InternalServerError(367) ELSE Resp("detail")
    /\ UNCHANGED <<tasks, today, h, weekly_updates>>

\* POST /tasks/create; s = 0 when the form carries no stage_id; the form's name
\* is "T".  The task is committed, then the cascade run.
CreateTask(s, m, start_date, end_date) ==
    /\ m \in DOMAIN macrostages
    /\ s # 0 => (s \in DOMAIN stages /\ stages[s].macrostage_id = m)
    /\ IF ~validate_task_dates(start_date, end_date)
       THEN /\ resp' = Resp("error")
            /\ UNCHANGED store
       ELSE IF (s # 0 /\ macrostages[m].structure_type = "tasks")
               \/ (s = 0 /\ macrostages[m].structure_type = "stages")
       THEN /\ resp' = Resp("detail")
            /\ UNCHANGED store
       ELSE LET M0 == IF s = 0 /\ macrostages[m].structure_type = ""
                      THEN [macrostages EXCEPT ![m].structure_type = "tasks"]
                      ELSE macrostages
                siblings == IF s # 0 THEN stage_tasks(tasks, s)
                            ELSE {t \in macrostage_tasks(tasks, m) : tasks[t].stage_id = 0}
                existing_positions == {tasks[t].position : t \in siblings}
                next_position == IF existing_positions = {} THEN 1 ELSE Max(existing_positions) + 1
                T1 == With(tasks, NextId(tasks),
                           [stage_id |-> s, macrostage_id |-> m, name |-> "T",
                            start_date |-> start_date, end_date |-> end_date,
                            position |-> next_position])
                r == IF s # 0
                     THEN recalculate_all_from_stage(T1, stages, M0, projects, s, today)
                     ELSE recalculate_all_from_macrostage(T1, stages, M0, projects, m, today)
            IN /\ tasks' = T1
               /\ stages' = r.S
               /\ macrostages' = r.M
               /\ projects' = r.P
               /\ resp' = IF r.raised THEN InternalServerError(367) ELSE Resp("detail")
    /\ UNCHANGED <<today, h, weekly_updates>>

\* POST /projects/<id>/update; status and auto_shift are the form's fields.
\* status_manual, status_manual_value and auto_shift_tasks are assigned to the
\* Project object of the request; they are no columns, and the commit stores
\* the status alone.
UpdateProject(p, status, auto_shift) ==
    /\ p \in DOMAIN projects
    /\ projects' =
          IF status \in {"Suspenso", "Descartado"}
          THEN [projects EXCEPT ![p].status = status]
          ELSE [projects EXCEPT ![p].status = calculate_automatic_status(projects[p], today)]
    /\ resp' = Resp("detail")
    /\ UNCHANGED <<macrostages, stages, tasks, today, h, weekly_updates>>

\* POST /projects/<id>/status/auto
ReactivateAutomaticStatus(p) ==
    /\ p \in DOMAIN projects
    /\ projects' = [projects EXCEPT ![p].status = calculate_automatic_status(projects[p], today)]
    /\ resp' = Resp("detail")
    /\ UNCHANGED <<macrostages, stages, tasks, today, h, weekly_updates>>

\* POST /projects/<id>/delete: the delete cascades to macrostages, stages and tasks
DeleteProject(p) ==
    /\ p \in DOMAIN projects
    /\ LET ms == project_macrostages(macrostages, p)
       IN /\ tasks' = Without(tasks, {t \in DOMAIN tasks : tasks[t].macrostage_id \in ms})
          /\ stages' = Without(stages, {s \in DOMAIN stages : stages[s].macrostage_id \in ms})
          /\ macrostages' = Without(macrostages, ms)
          /\ projects' = Without(projects, {p})
    /\ weekly_updates' = Without(weekly_updates,
            {w \in DOMAIN weekly_updates : weekly_updates[w].task_id \in {t \in DOMAIN tasks : tasks[t].macrostage_id \in project_macrostages(macrostages, p)}})
    /\ resp' = Resp("list")
    /\ UNCHANGED <<today, h>>

\* POST /macrostages/<id>/update: the name alone is written
UpdateMacrostage(m) ==
    /\ m \in DOMAIN macrostages
    /\ resp' = Resp("detail")
    /\ UNCHANGED <<store, today, h>>

\* POST /macrostages/<id>/delete: the delete is committed, then the project recalculated
DeleteMacrostage(m) ==
    /\ m \in DOMAIN macrostages
    /\ LET p == macrostages[m].project_id
           M1 == Without(macrostages, {m})
           P1 == recalculate_project(M1, projects, p)
           P2 == recalculate_project_status(P1, p, today)
       IN /\ tasks' = Without(tasks, macrostage_tasks(tasks, m))
          /\ stages' = Without(stages, macrostage_stages(stages, m))
          /\ macrostages' = M1
          /\ projects' = IF P2.raised THEN projects ELSE P2.P
          /\ resp' = IF P2.raised THEN InternalServerError(367) ELSE Resp("detail")
    /\ weekly_updates' = Without(weekly_updates,
            {w \in DOMAIN weekly_updates : weekly_updates[w].task_id \in macrostage_tasks(tasks, m)})
    /\ UNCHANGED <<today, h>>

\* POST /stages/<id>/update: the name, the type, the scope and the tools are written
UpdateStage(s) ==
    /\ s \in DOMAIN stages
    /\ resp' = Resp("detail")
    /\ UNCHANGED <<store, today, h>>

\* POST /stages/<id>/delete: the deletes are committed, then the macrostage
\* and the project recalculated
DeleteStage(s) ==
    /\ s \in DOMAIN stages
    /\ LET m == stages[s].macrostage_id
           p == macrostages[m].project_id
           T1 == Without(tasks, stage_tasks(tasks, s))
           S1 == Without(stages, {s})
           M1 == recalculate_macrostage(T1, S1, macrostages, m)
           P1 == recalculate_project(M1, projects, p)
           P2 == recalculate_project_status(P1, p, today)
       IN /\ tasks' = T1
          /\ stages' = S1
          /\ macrostages' = IF P2.raised THEN macrostages ELSE M1
          /\ projects' = IF P2.raised THEN projects ELSE P2.P
          /\ resp' = IF P2.raised THEN InternalServerError(367) ELSE Resp("detail")
    /\ weekly_updates' = Without(weekly_updates,
            {w \in DOMAIN weekly_updates : weekly_updates[w].task_id \in stage_tasks(tasks, s)})
    /\ UNCHANGED <<today, h>>

\* POST /tasks/<id>/delete: the delete is committed, then the cascade run
DeleteTask(t) ==
    /\ t \in DOMAIN tasks
    /\ LET s == tasks[t].stage_id
           m == tasks[t].macrostage_id
           T1 == Without(tasks, {t})
           r == IF s # 0
                THEN recalculate_all_from_stage(T1, stages, macrostages, projects, s, today)
                ELSE recalculate_all_from_macrostage(T1, stages, macrostages, projects, m, today)
       IN /\ tasks' = T1
          /\ stages' = r.S
          /\ macrostages' = r.M
          /\ projects' = r.P
          /\ resp' = IF r.raised THEN InternalServerError(367) ELSE Resp("detail")
    /\ weekly_updates' = Without(weekly_updates,
            {w \in DOMAIN weekly_updates : weekly_updates[w].task_id \in {t}})
    /\ UNCHANGED <<today, h>>

\* variant: the structure is set without looking at the children
SetMacrostageStructure_unguarded(m, requested) ==
    /\ m \in DOMAIN macrostages
    /\ macrostages' = IF requested \notin {"stages", "tasks"}
                      THEN macrostages
                      ELSE [macrostages EXCEPT ![m].structure_type = requested]
    /\ resp' = Resp("detail")
    /\ UNCHANGED <<projects, stages, tasks, today, h, weekly_updates>>

\* POST /macrostages/<id>/structure
SetMacrostageStructure(m, requested) ==
    /\ m \in DOMAIN macrostages
    /\ LET direct_tasks == {t \in macrostage_tasks(tasks, m) : tasks[t].stage_id = 0}
       IN macrostages' =
             IF \/ requested \notin {"stages", "tasks"}
                \/ (requested = "stages" /\ direct_tasks # {})
                \/ (requested = "tasks" /\ macrostage_stages(stages, m) # {})
             THEN macrostages
             ELSE [macrostages EXCEPT ![m].structure_type = requested]
    /\ resp' = Resp("detail")
    /\ UNCHANGED <<projects, stages, tasks, today, h, weekly_updates>>

\* variant: the name assigned before the validation is committed with the error answer
UpdateTaskNamed_name_kept(t, name, new_start_date, new_end_date) ==
    /\ t \in DOMAIN tasks
    /\ LET s == tasks[t].stage_id
           m == tasks[t].macrostage_id
           p == macrostages[m].project_id
           T1 == [tasks EXCEPT ![t].name = IF name # "" THEN name ELSE @,
                               ![t].start_date = new_start_date,
                               ![t].end_date = new_end_date]
           d == calculate_task_shift_delta(tasks[t].start_date, tasks[t].end_date,
                                           new_start_date, new_end_date)
           r == IF s # 0
                THEN recalculate_all_from_stage(T1, stages, macrostages, projects, s, today)
                ELSE recalculate_all_from_macrostage(T1, stages, macrostages, projects, m, today)
       IN IF ~validate_task_dates(new_start_date, new_end_date)
          THEN /\ resp' = Resp("error")
               /\ tasks' = [tasks EXCEPT ![t].name = IF name # "" THEN name ELSE @]
               /\ UNCHANGED <<projects, macrostages, stages>>
          ELSE IF ~hasattr(projects[p], "auto_shift_tasks")
          THEN /\ resp' = InternalServerError(2904)
               /\ UNCHANGED <<projects, macrostages, stages, tasks>>
          ELSE IF /\ projects[p].auto_shift_tasks
                  /\ d[1] # 0 /\ d[2] # Null
                  /\ find_subsequent_tasks(T1, macrostages, p, d[2], t) # {<<>>}
          THEN /\ tasks' = T1
               /\ resp' = [kind |-> "confirm", task |-> t, delta |-> d[1], ref |-> d[2]]
               /\ UNCHANGED <<projects, macrostages, stages>>
          ELSE IF r.raised
          THEN /\ resp' = InternalServerError(367)
               /\ UNCHANGED <<projects, macrostages, stages, tasks>>
          ELSE /\ tasks' = T1
               /\ stages' = r.S
               /\ macrostages' = r.M
               /\ projects' = r.P
               /\ resp' = Resp("detail")
    /\ UNCHANGED <<today, h, weekly_updates>>

\* POST /tasks/<id>/update; a blank name in the form keeps the task's name.
\* The name and the dates are assigned to the Task object; they are stored by
\* the commit of the preview path or of the cascade.
UpdateTaskNamed(t, name, new_start_date, new_end_date) ==
    /\ t \in DOMAIN tasks
    /\ LET s == tasks[t].stage_id
           m == tasks[t].macrostage_id
           p == macrostages[m].project_id
           T1 == [tasks EXCEPT ![t].name = IF name # "" THEN name ELSE @,
                               ![t].start_date = new_start_date,
                               ![t].end_date = new_end_date]
           d == calculate_task_shift_delta(tasks[t].start_date, tasks[t].end_date,
                                           new_start_date, new_end_date)
           r == IF s # 0
                THEN recalculate_all_from_stage(T1, stages, macrostages, projects, s, today)
                ELSE recalculate_all_from_macrostage(T1, stages, macrostages, projects, m, today)
       IN IF ~validate_task_dates(new_start_date, new_end_date)
          THEN /\ resp' = Resp("error")
               /\ UNCHANGED store
          ELSE IF ~hasattr(projects[p], "auto_shift_tasks")
          THEN \* AttributeError at the read of project.auto_shift_tasks
               /\ resp' = InternalServerError(2904)
               /\ UNCHANGED store
          ELSE IF /\ projects[p].auto_shift_tasks
                  /\ d[1] # 0 /\ d[2] # Null
                  /\ find_subsequent_tasks(T1, macrostages, p, d[2], t) # {<<>>}
          THEN \* the edited task alone is committed; the caller is sent to the confirmation
               /\ tasks' = T1
               /\ resp' = [kind |-> "confirm", task |-> t, delta |-> d[1], ref |-> d[2]]
               /\ UNCHANGED <<projects, macrostages, stages>>
          ELSE IF r.raised
          THEN \* the AttributeError is no ValueError: it leaves the handler
               /\ resp' = InternalServerError(367)
               /\ UNCHANGED store
          ELSE /\ tasks' = T1
               /\ stages' = r.S
               /\ macrostages' = r.M
               /\ projects' = r.P
               /\ resp' = Resp("detail")
    /\ UNCHANGED <<today, h, weekly_updates>>

\* POST /tasks/<id>/update with a blank name
UpdateTask(t, new_start_date, new_end_date) ==
    UpdateTaskNamed(t, "", new_start_date, new_end_date)

\* The answer of confirm_task_shift for the list q of subsequent tasks: the
\* page, unless a new date of the first task that has one past date.max or
\* before date.min raises OverflowError.
confirm_task_shift_page(T, q, t, delta_days, old_start_date) ==
    LET overflowing == {i \in DOMAIN q :
                           \/ date_overflows(T[q[i]].start_date, delta_days)
                           \/ (T[q[i]].end_date # Null
                                  /\ date_overflows(T[q[i]].end_date, delta_days))}
    IN IF overflowing = {}
       THEN [kind |-> "page", task |-> t, delta |-> delta_days, ref |-> old_start_date]
       ELSE IF date_overflows(T[q[Min(overflowing)]].start_date, delta_days)
       THEN InternalServerError(3002)
       ELSE InternalServerError(3003)

\* GET /tasks/<id>/confirm_shift with the query's delta_days and old_start_date
ConfirmTaskShift(t, delta_days, old_start_date) ==
    /\ t \in DOMAIN tasks
    /\ LET p == macrostages[tasks[t].macrostage_id].project_id
       IN IF ~hasattr(projects[p], "auto_shift_tasks")
          THEN \* AttributeError at the read of project.auto_shift_tasks
               resp' = InternalServerError(2976)
          ELSE IF ~projects[p].auto_shift_tasks THEN resp' = Resp("detail")
          ELSE IF delta_days = 0 \/ old_start_date = Null THEN resp' = Resp("detail")
          ELSE \E q \in find_subsequent_tasks(tasks, macrostages, p, old_start_date, t) :
                  resp' = confirm_task_shift_page(tasks, q, t, delta_days, old_start_date)
    /\ UNCHANGED <<store, today, h>>

\* The answer and the tables of apply_task_shift once the project's
\* auto_shift_tasks was read as true.
apply_task_shift_enabled(T, S, M, P, t, p, delta_days, old_start_date, now) ==
    IF delta_days = 0 \/ old_start_date = Null
    THEN {[resp |-> Resp("flash_error"), T |-> T, S |-> S, M |-> M, P |-> P]}
    ELSE {IF q = <<>>
          THEN [resp |-> Resp("flash_info"), T |-> T, S |-> S, M |-> M, P |-> P]
          ELSE LET loop == shift_loop(T, q, 1, delta_days)
                   shifted == {q[i] : i \in 1..Len(q)}
                   r == recalculate_after_shift(loop.T, S, M, P, shifted, p, now)
               IN IF ~loop.ok \/ r.raised
                  THEN \* db.session.rollback()
                       [resp |-> Resp("flash_error"), T |-> T, S |-> S, M |-> M, P |-> P]
                  ELSE [resp |-> [Resp("flash_success") EXCEPT !.task = t],
                        T |-> loop.T, S |-> r.S, M |-> r.M, P |-> r.P]
          : q \in find_subsequent_tasks(T, M, p, old_start_date, t)}

\* POST /tasks/<id>/apply_shift with the form's delta_days and old_start_date
ApplyTaskShift(t, delta_days, old_start_date) ==
    /\ t \in DOMAIN tasks
    /\ LET p == macrostages[tasks[t].macrostage_id].project_id
       IN IF ~hasattr(projects[p], "auto_shift_tasks")
          THEN \* AttributeError at the read of project.auto_shift_tasks
               /\ resp' = InternalServerError(3038)
               /\ UNCHANGED store
          ELSE IF ~projects[p].auto_shift_tasks
          THEN /\ resp' = Resp("flash_error")
               /\ UNCHANGED store
          ELSE \E a \in apply_task_shift_enabled(tasks, stages, macrostages, projects, t, p,
                                                 delta_days, old_start_date, today) :
                  /\ resp' = a.resp
                  /\ tasks' = a.T
                  /\ stages' = a.S
                  /\ macrostages' = a.M
                  /\ projects' = a.P
    /\ UNCHANGED <<today, h, weekly_updates>>

-----------------------------------------------------------------------------
(* Reorder routes.  The order of the JSON payload is a list of tokens: ids,
   or Malformed for an element int() does not accept. *)
Malformed == 0 - 1

\* the children ids in the order of the relationship: position, then id
RECURSIVE children_in_order(_, _)
children_in_order(rows, ids) ==
    IF ids = {} THEN <<>>
    ELSE LET first == CHOOSE c \in ids : \A d \in ids :
                          \/ rows[c].position < rows[d].position
                          \/ (rows[c].position = rows[d].position /\ c <= d)
         IN <<first>> \o children_in_order(rows, ids \ {first})

\* The first loop of a reorder route from element i of order on: pending
\* is the map of the children not yet placed, position the next position.
RECURSIVE reorder_listed(_, _, _, _, _)
reorder_listed(rows, order, i, pending, position) ==
    IF i > Len(order) THEN [rows |-> rows, pending |-> pending, position |-> position]
    ELSE IF order[i] = Malformed \/ order[i] \notin pending
    THEN reorder_listed(rows, order, i + 1, pending, position)
    ELSE reorder_listed([rows EXCEPT ![order[i]].position = position],
                        order, i + 1, pending \ {order[i]}, position + 1)

\* the second loop: the children left in the map, in the order they were loaded
RECURSIVE reorder_rest(_, _, _, _)
reorder_rest(rows, loaded, i, position) ==
    IF i > Len(loaded) THEN rows
    ELSE reorder_rest([rows EXCEPT ![loaded[i]].position = position], loaded, i + 1, position + 1)

\* variant: the children that are not listed keep the position they had
reorder_listed_only(rows, ids, order) ==
    reorder_listed(rows, order, 1, ids, 1).rows

\* the table rows after a reorder of the children ids with the payload order
reorder(rows, ids, order) ==
    LET loaded == children_in_order(rows, ids)
        listed == reorder_listed(rows, order, 1, ids, 1)
        rest == SelectSeq(loaded, LAMBDA c : c \in listed.pending)
    IN reorder_rest(listed.rows, rest, 1, listed.position)

\* POST /projects/<id>/macrostages/reorder
ReorderMacrostages(p, is_list, order) ==
    /\ p \in DOMAIN projects
    /\ IF ~is_list
       THEN macrostages' = macrostages /\ resp' = Resp("json_error")
       ELSE /\ macrostages' = reorder(macrostages, project_macrostages(macrostages, p), order)
            /\ resp' = Resp("json_ok")
    /\ UNCHANGED <<projects, stages, tasks, today, h, weekly_updates>>

\* POST /stages/<macrostage_id>/reorder
ReorderStages(m, is_list, order) ==
    /\ m \in DOMAIN macrostages
    /\ IF ~is_list
       THEN stages' = stages /\ resp' = Resp("json_error")
       ELSE /\ stages' = reorder(stages, macrostage_stages(stages, m), order)
            /\ resp' = Resp("json_ok")
    /\ UNCHANGED <<projects, macrostages, tasks, today, h, weekly_updates>>

\* POST /tasks/<stage_id>/reorder
ReorderTasks(s, is_list, order) ==
    /\ s \in DOMAIN stages
    /\ IF ~is_list
       THEN tasks' = tasks /\ resp' = Resp("json_error")
       ELSE /\ tasks' = reorder(tasks, stage_tasks(tasks, s), order)
            /\ resp' = Resp("json_ok")
    /\ UNCHANGED <<projects, macrostages, stages, today, h, weekly_updates>>

\* POST /macrostages/<id>/tasks/reorder
ReorderMacrostageTasks(m, is_list, order) ==
    /\ m \in DOMAIN macrostages
    /\ IF ~is_list
       THEN tasks' = tasks /\ resp' = Resp("json_error")
       ELSE /\ tasks' = reorder(tasks,
                                {t \in macrostage_tasks(tasks, m) : tasks[t].stage_id = 0}, order)
            /\ resp' = Resp("json_ok")
    /\ UNCHANGED <<projects, macrostages, stages, today, h, weekly_updates>>

\* POST /tasks/<id>/weekly_updates/create; has_content: the form's content is not blank
CreateWeeklyUpdate(t, has_content) ==
    /\ t \in DOMAIN tasks
    /\ weekly_updates' = IF has_content
                         THEN With(weekly_updates, NextId(weekly_updates), [task_id |-> t])
                         ELSE weekly_updates
    /\ resp' = Resp("detail")
    /\ UNCHANGED <<projects, macrostages, stages, tasks, today, h>>

\* POST /weekly_updates/<id>/update: the content and the date are written
UpdateWeeklyUpdate(w) ==
    /\ w \in DOMAIN weekly_updates
    /\ resp' = Resp("detail")
    /\ UNCHANGED <<store, today, h>>

\* POST /weekly_updates/<id>/delete
DeleteWeeklyUpdate(w) ==
    /\ w \in DOMAIN weekly_updates
    /\ weekly_updates' = Without(weekly_updates, {w})
    /\ resp' = Resp("detail")
    /\ UNCHANGED <<projects, macrostages, stages, tasks, today, h>>

(* The requests.  Every route that writes a table is a disjunct; the ids a
   request addresses run up to the bounds, and a create is made while the new
   id is within them.  The template is created in a store without projects. *)
OrderMaxLen == 2
WeeklyMaxUpdates == 1

OrderMaxId == 3

\* the payloads of the reorder routes: lists of up to OrderMaxLen tokens over
\* the ids up to OrderMaxId and Malformed
Orders ==
    UNION {[1..n -> (1..OrderMaxId) \cup {Malformed}] : n \in 0..OrderMaxLen}

\* the names update_task's form carries
EditNames == {"", "R"}

ProjectTypes == {"blank", "template"}

Next ==
    \/ \E has_name \in BOOLEAN, project_type \in ProjectTypes :
          NextId(projects) <= MaxProjects /\ CreateProject(has_name, project_type)
    \/ \E p \in 1..MaxProjects : ProjectDetail(p)
    \/ \E p \in 1..MaxProjects : ExportProjectDetail(p)
    \/ \E p \in 1..MaxProjects :
          NextId(macrostages) <= MaxMacrostages /\ CreateMacrostage(p)
    \/ \E m \in 1..MaxMacrostages :
          NextId(stages) <= MaxStages /\ CreateStage(m)
    \/ \E s \in 0..MaxStages, m \in 1..MaxMacrostages, sd \in NDays, ed \in NDays :
          NextId(tasks) <= MaxTasks /\ CreateTask(s, m, sd, ed)
    \/ \E p \in 1..MaxProjects, st \in StatusInputs, a \in BOOLEAN : UpdateProject(p, st, a)
    \/ \E p \in 1..MaxProjects : ReactivateAutomaticStatus(p)
    \/ \E p \in 1..MaxProjects : DeleteProject(p)
    \/ \E m \in 1..MaxMacrostages : UpdateMacrostage(m)
    \/ \E m \in 1..MaxMacrostages : DeleteMacrostage(m)
    \/ \E s \in 1..MaxStages : UpdateStage(s)
    \/ \E s \in 1..MaxStages : DeleteStage(s)
    \/ \E p \in 1..MaxProjects, is_list \in BOOLEAN, o \in Orders :
          (~is_list => o = <<>>) /\ ReorderMacrostages(p, is_list, o)
    \/ \E m \in 1..MaxMacrostages, is_list \in BOOLEAN, o \in Orders :
          (~is_list => o = <<>>) /\ ReorderStages(m, is_list, o)
    \/ \E s \in 1..MaxStages, is_list \in BOOLEAN, o \in Orders :
          (~is_list => o = <<>>) /\ ReorderTasks(s, is_list, o)
    \/ \E m \in 1..MaxMacrostages, is_list \in BOOLEAN, o \in Orders :
          (~is_list => o = <<>>) /\ ReorderMacrostageTasks(m, is_list, o)
    \/ \E m \in 1..MaxMacrostages, r \in {"stages", "tasks", ""} : SetMacrostageStructure(m, r)
    \/ \E t \in 1..MaxTasks, n \in EditNames, sd \in NDays, ed \in NDays :
          UpdateTaskNamed(t, n, sd, ed)
    \/ \E t \in 1..MaxTasks, d \in Deltas, ref \in RefDays : ConfirmTaskShift(t, d, ref)
    \/ \E t \in 1..MaxTasks, d \in Deltas, ref \in RefDays :
          ShiftWithinWindow(tasks, d, ref) /\ ApplyTaskShift(t, d, ref)
    \/ \E t \in 1..MaxTasks : DeleteTask(t)
    \/ \E t \in 1..MaxTasks, c \in BOOLEAN :
          NextId(weekly_updates) <= WeeklyMaxUpdates /\ CreateWeeklyUpdate(t, c)
    \/ \E w \in 1..WeeklyMaxUpdates : UpdateWeeklyUpdate(w)
    \/ \E w \in 1..WeeklyMaxUpdates : DeleteWeeklyUpdate(w)

Spec == Init /\ [][Next]_vars


-----------------------------------------------------------------------------
(* Calls of single functions on drawn arguments.  h = the call: the function,
   its arguments, the number of steps done and what it returned so far. *)
CallMaxDay == 3
CallDays == Epoch .. (Epoch + CallMaxDay)
CallNDays == CallDays \cup {Null}
CallDeltas == (-CallMaxDay .. CallMaxDay) \ {0}
CallMaxChildren == 3
CallNows == (Epoch - 1) .. (Epoch + MaxDay + 1)
ProgressMaxDays == 50
ProgressDays == Epoch .. (Epoch + ProgressMaxDays)
FindMaxTasks == 3
FindMaxPosition == 2

Call(fn, args) == [fn |-> fn, args |-> args, step |-> 0, ret |-> <<>>]

\* The stores find_subsequent_tasks is called on: macrostage 1 (of stages) and
\* macrostage 2 (of tasks) belong to project 1, macrostage 3 (of tasks) to
\* project 2; task 1 belongs to the stage of macrostage 1, the other tasks
\* are owned directly by the macrostage c[i][1]; c[i][2] is the start date and
\* c[i][3] the position of task i.
FindMacrostages ==
    [m \in 1..3 |-> [project_id |-> IF m = 3 THEN 2 ELSE 1, position |-> IF m = 2 THEN 2 ELSE 1,
                     structure_type |-> IF m = 1 THEN "stages" ELSE "tasks",
                     start_date |-> Null, end_date |-> Null]]

FindTasks(c) ==
    [i \in DOMAIN c |-> [stage_id |-> IF i = 1 THEN 1 ELSE 0, macrostage_id |-> c[i][1],
                         name |-> "T", start_date |-> c[i][2], end_date |-> Null,
                         position |-> c[i][3]]]

\* a task row with the given dates
TaskRow(start_date, end_date) ==
    [stage_id |-> 1, macrostage_id |-> 1, start_date |-> start_date,
     end_date |-> end_date, position |-> 1]

InitCall ==
    /\ projects = <<>>
    /\ macrostages = <<>>
    /\ stages = <<>>
    /\ tasks = <<>>
    /\ today = Epoch + 1
    /\ resp = NoResp
    /\ weekly_updates = <<>>
    /\ \/ \E os \in CallNDays, oe \in CallNDays, ns \in CallNDays, ne \in CallNDays :
             h = Call("calculate_task_shift_delta", <<os, oe, ns, ne>>)
       \/ \E os \in CallNDays, oe \in CallNDays, ns \in CallNDays, ne \in CallNDays :
             h = Call("calculate_task_shift_delta_return", <<os, oe, ns, ne>>)
       \/ \E sd \in CallNDays, ed \in CallNDays, d \in CallDeltas :
             /\ validate_task_dates(sd, ed)
             /\ h = Call("shift_writes", <<TaskRow(sd, ed), d>>)
       \/ \E n \in 0..CallMaxChildren : \E c \in [1..n -> NDays \X NDays] :
             /\ \A i \in 1..n : validate_task_dates(c[i][1], c[i][2])
             /\ h = Call("recalculate_stage", c)
       \/ \E n \in 0..CallMaxChildren : \E c \in [1..n -> NDays \X NDays] :
             h = Call("recalculate_project", c)
       \/ \E sd \in CallNDays, ed \in CallNDays, now \in CallDays :
             h = Call("calculate_automatic_status", <<sd, ed, now>>)
       \/ \E n \in 0..CallMaxChildren : \E c \in [1..n -> NDays \X NDays], now \in CallNows :
             /\ \A i \in 1..n : validate_task_dates(c[i][1], c[i][2])
             /\ h = Call("calculate_stage_status", <<c, now>>)
       \/ \E n \in 0..CallMaxChildren : \E c \in [1..n -> NDays \X NDays], now \in CallNows :
             /\ \A i \in 1..n : validate_task_dates(c[i][1], c[i][2])
             /\ h = Call("calculate_stage_status_return", <<c, now>>)
       \/ \E sd \in {Null, Epoch, Epoch + 1}, ed \in ProgressDays \cup {Null},
             now \in (Epoch - 1) .. (Epoch + ProgressMaxDays + 1) :
             h = Call("calculate_project_progress", <<sd, ed, now>>)
       \/ \E c \in [1..FindMaxTasks -> (1..3) \X NDays \X (1..FindMaxPosition)],
             project_id \in 1..2, ref \in RefDays, exclude_task_id \in 0..2 :
             /\ c[1][1] = 1
             /\ \A i \in 2..FindMaxTasks : c[i][1] \in 2..3
             \* the positions of the tasks of one container differ
             /\ \A i \in 2..FindMaxTasks, j \in 2..FindMaxTasks :
                   (i # j /\ c[i][1] = c[j][1]) => c[i][3] # c[j][3]
             /\ h = Call("find_subsequent_tasks", <<c, project_id, ref, exclude_task_id>>)

\* calculate_task_shift_delta on the four dates of h.args, with the return taken
CallCalculateTaskShiftDeltaReturn ==
    /\ h.fn = "calculate_task_shift_delta_return" /\ h.step = 0
    /\ h' = [h EXCEPT !.step = 1,
                      !.ret = calculate_task_shift_delta_return(h.args[1], h.args[2],
                                                                h.args[3], h.args[4])]
    /\ UNCHANGED <<store, today, resp>>

\* calculate_task_shift_delta on the four dates of h.args
CallCalculateTaskShiftDelta ==
    /\ h.fn = "calculate_task_shift_delta" /\ h.step = 0
    /\ h' = [h EXCEPT !.step = 1,
                      !.ret = calculate_task_shift_delta(h.args[1], h.args[2], h.args[3], h.args[4])]
    /\ UNCHANGED <<store, today, resp>>

\* one assignment of a date field in the loop of apply_task_shift, on the
\* task row h.args[1] with delta h.args[2]; h.ret is the row after it
CallShiftWrites ==
    /\ h.fn = "shift_writes" /\ h.step < 2
    /\ LET row == h.args[1]
           delta_days == h.args[2]
           new_start_date == IF row.start_date # Null THEN row.start_date + delta_days ELSE Null
           new_end_date == IF row.end_date # Null THEN row.end_date + delta_days ELSE Null
       IN h' = [h EXCEPT !.step = @ + 1,
                         !.ret = shift_writes(row, new_start_date, new_end_date, delta_days)[h.step + 1]]
    /\ UNCHANGED <<store, today, resp>>

\* recalculate_stage on a stage whose tasks carry the dates of h.args
CallRecalculateStage ==
    /\ h.fn = "recalculate_stage" /\ h.step = 0
    /\ LET T == [i \in DOMAIN h.args |->
                    [TaskRow(h.args[i][1], h.args[i][2]) EXCEPT !.position = i]]
           S == [s \in {1} |-> [macrostage_id |-> 1, position |-> 1,
                                start_date |-> Epoch + MaxDay, end_date |-> Epoch]]
       IN h' = [h EXCEPT !.step = 1, !.ret = recalculate_stage(T, S, 1)[1]]
    /\ UNCHANGED <<store, today, resp>>

\* recalculate_project on a project whose macrostages carry the dates of h.args
CallRecalculateProject ==
    /\ h.fn = "recalculate_project" /\ h.step = 0
    /\ LET M == [i \in DOMAIN h.args |->
                    [project_id |-> 1, position |-> i, structure_type |-> "",
                     start_date |-> h.args[i][1], end_date |-> h.args[i][2]]]
           P == [p \in {1} |-> [start_date |-> Epoch + MaxDay, end_date |-> Epoch,
                                status |-> ""]]
       IN h' = [h EXCEPT !.step = 1, !.ret = recalculate_project(M, P, 1)[1]]
    /\ UNCHANGED <<store, today, resp>>

\* calculate_automatic_status on a project with the dates of h.args, on day h.args[3]
CallCalculateAutomaticStatus ==
    /\ h.fn = "calculate_automatic_status" /\ h.step = 0
    /\ h' = [h EXCEPT !.step = 1,
                      !.ret = calculate_automatic_status(
                                 [start_date |-> h.args[1], end_date |-> h.args[2]], h.args[3])]
    /\ UNCHANGED <<store, today, resp>>

\* calculate_stage_status on a stage whose tasks carry the dates of h.args[1], on day h.args[2]
CallCalculateStageStatus ==
    /\ h.fn = "calculate_stage_status" /\ h.step = 0
    /\ LET T == [i \in DOMAIN h.args[1] |->
                    [TaskRow(h.args[1][i][1], h.args[1][i][2]) EXCEPT !.position = i]]
       IN h' = [h EXCEPT !.step = 1, !.ret = calculate_stage_status(T, 1, h.args[2])]
    /\ UNCHANGED <<store, today, resp>>

\* calculate_stage_status on the tasks of h.args[1] at the day h.args[2], with the return taken
CallCalculateStageStatusReturn ==
    /\ h.fn = "calculate_stage_status_return" /\ h.step = 0
    /\ LET T == [i \in DOMAIN h.args[1] |->
                    [TaskRow(h.args[1][i][1], h.args[1][i][2]) EXCEPT !.position = i]]
       IN h' = [h EXCEPT !.step = 1, !.ret = calculate_stage_status_return(T, 1, h.args[2])]
    /\ UNCHANGED <<store, today, resp>>

\* calculate_project_progress(start_date, end_date, current_date)
CallCalculateProjectProgress ==
    /\ h.fn = "calculate_project_progress" /\ h.step = 0
    /\ h' = [h EXCEPT !.step = 1,
                      !.ret = calculate_project_progress(h.args[1], h.args[2], h.args[3])]
    /\ UNCHANGED <<store, today, resp>>

\* find_subsequent_tasks(project_id, reference_start_date, exclude_task_id) on
\* the store of h.args[1]; h.ret is the set of lists it may return
CallFindSubsequentTasks ==
    /\ h.fn = "find_subsequent_tasks" /\ h.step = 0
    /\ h' = [h EXCEPT !.step = 1,
                      !.ret = find_subsequent_tasks(FindTasks(h.args[1]), FindMacrostages,
                                                    h.args[2], h.args[3], h.args[4])]
    /\ UNCHANGED <<store, today, resp>>

NextCall ==
    \/ CallCalculateAutomaticStatus
    \/ CallCalculateStageStatus
    \/ CallCalculateStageStatusReturn
    \/ CallCalculateProjectProgress
    \/ CallCalculateTaskShiftDelta
    \/ CallCalculateTaskShiftDeltaReturn
    \/ CallShiftWrites
    \/ CallRecalculateStage
    \/ CallRecalculateProject
    \/ CallFindSubsequentTasks

SpecCall == InitCall /\ [][NextCall]_vars

-----------------------------------------------------------------------------
(* Vocabulary of the properties *)

\* x is the least of the non-null dates of D, or null when D has none
IsEarliest(x, D) ==
    IF D \ {Null} = {} THEN x = Null
    ELSE x \in D \ {Null} /\ \A y \in D \ {Null} : x <= y

\* x is the greatest of the non-null dates of D, or null when D has none
IsLatest(x, D) ==
    IF D \ {Null} = {} THEN x = Null
    ELSE x \in D \ {Null} /\ \A y \in D \ {Null} : y <= x

TasksOfStage(s) == {t \in DOMAIN tasks : tasks[t].stage_id = s}
TasksOfMacrostage(m) == {t \in DOMAIN tasks : tasks[t].macrostage_id = m}
StagesOfMacrostage(m) == {s \in DOMAIN stages : stages[s].macrostage_id = m}
MacrostagesOfProject(p) == {m \in DOMAIN macrostages : macrostages[m].project_id = p}
ProjectOfTask(t) == macrostages[tasks[t].macrostage_id].project_id
TasksOfProject(p) == {t \in DOMAIN tasks : ProjectOfTask(t) = p}

StageIsFold(s) ==
    /\ IsEarliest(stages[s].start_date, {tasks[t].start_date : t \in TasksOfStage(s)})
    /\ IsLatest(stages[s].end_date, {tasks[t].end_date : t \in TasksOfStage(s)})

MacrostageIsFold(m) ==
    /\ IsEarliest(macrostages[m].start_date,
                  {stages[s].start_date : s \in StagesOfMacrostage(m)}
                     \cup {tasks[t].start_date : t \in TasksOfMacrostage(m)})
    /\ IsLatest(macrostages[m].end_date,
                {stages[s].end_date : s \in StagesOfMacrostage(m)}
                   \cup {tasks[t].end_date : t \in TasksOfMacrostage(m)})

ProjectIsFold(p) ==
    /\ IsEarliest(projects[p].start_date,
                  {macrostages[m].start_date : m \in MacrostagesOfProject(p)})
    /\ IsLatest(projects[p].end_date,
                {macrostages[m].end_date : m \in MacrostagesOfProject(p)})

-----------------------------------------------------------------------------
(* C1: after any completed request every Stage's stored dates are the min/max
   of its tasks' non-null dates, every MacroStage's the min/max over its
   stages and tasks, every Project's the min/max over its macrostages. *)
C1_DerivedDatesAreFolds ==
    /\ \A s \in DOMAIN stages : StageIsFold(s)
    /\ \A m \in DOMAIN macrostages : MacrostageIsFold(m)
    /\ \A p \in DOMAIN projects : ProjectIsFold(p)

(* C2: every task that has both dates has start_date <= end_date, the tasks
   of the project template included, and a create_task or update_task whose
   start is after its end is answered with an error and changes nothing (it
   is not stored in a corrected form). *)
C2_TasksOrdered ==
    /\ \A t \in DOMAIN tasks :
          (tasks[t].start_date # Null /\ tasks[t].end_date # Null)
              => tasks[t].start_date <= tasks[t].end_date
    /\ \A i \in DOMAIN template_task_dates(today) :
          template_task_dates(today)[i][1] <= template_task_dates(today)[i][2]

C2_InvalidWriteRejected ==
    \A sd \in Days, ed \in Days :
        sd > ed =>
            /\ \A t \in 1..MaxTasks :
                  UpdateTask(t, sd, ed) => (resp'.kind = "error" /\ UNCHANGED store)
            /\ \A s \in 0..MaxStages, m \in 1..MaxMacrostages :
                  CreateTask(s, m, sd, ed) => (resp'.kind = "error" /\ UNCHANGED store)

C2_StartNeverAfterEnd == []C2_TasksOrdered /\ [][C2_InvalidWriteRejected]_vars

\* a write was rejected while a task with two distinct dates is stored
C2_Witness ==
    /\ resp.kind = "error"
    /\ \E t \in DOMAIN tasks : tasks[t].start_date # Null /\ tasks[t].start_date < tasks[t].end_date

(* C5: an update_task that passes the date validation answers with the
   confirmation redirect, committing the edited task alone, exactly when the
   project has auto_shift_tasks on, the computed delta is non-zero, the
   reference date is non-null and some other task of the project starts after
   the reference; otherwise it stores the task and recalculates its Stage,
   MacroStage and Project. *)
C5_UpdateStep(t, sd, ed) ==
    LET p == ProjectOfTask(t)
        s == tasks[t].stage_id
        m == tasks[t].macrostage_id
        d == calculate_task_shift_delta(tasks[t].start_date, tasks[t].end_date, sd, ed)
        pending == /\ hasattr(projects[p], "auto_shift_tasks")
                   /\ projects[p].auto_shift_tasks
                   /\ d[1] # 0
                   /\ d[2] # Null
                   /\ \E u \in TasksOfProject(p) \ {t} :
                         tasks[u].start_date # Null /\ tasks[u].start_date > d[2]
    IN /\ tasks' = [tasks EXCEPT ![t].start_date = sd, ![t].end_date = ed]
       /\ IF pending
          THEN /\ resp' = [kind |-> "confirm", task |-> t, delta |-> d[1], ref |-> d[2]]
               /\ UNCHANGED <<projects, macrostages, stages>>
          ELSE /\ resp'.kind = "detail"
               /\ (s # 0 => StageIsFold(s)')
               /\ MacrostageIsFold(m)'
               /\ ProjectIsFold(p)'

C5_PreviewExactlyWhenShiftPending ==
    [][\A t \in DOMAIN tasks, sd \in NDays, ed \in NDays :
          (/\ ~(sd # Null /\ ed # Null /\ sd > ed)
           /\ UpdateTask(t, sd, ed))
              => C5_UpdateStep(t, sd, ed)]_vars

(* C7: while apply_task_shift assigns the two date fields of a task one at a
   time (end_date first when delta > 0, start_date first when delta < 0), the
   task never has both dates set with start_date > end_date, given that it
   had start_date <= end_date before the shift. *)
C7_NoTransientInversion ==
    (h.fn = "shift_writes" /\ h.step > 0) =>
        ~(h.ret.start_date # Null /\ h.ret.end_date # Null
          /\ h.ret.start_date > h.ret.end_date)

\* the first field of a one-day task was written: a postponed end
C7_Witness ==
    /\ h.fn = "shift_writes" /\ h.step = 1
    /\ h.args[1].start_date # Null
    /\ h.args[1].start_date = h.args[1].end_date
    /\ h.args[2] > 0
    /\ h.ret.end_date = h.args[1].end_date + h.args[2]
    /\ h.ret.start_date = h.args[1].start_date

(* C8: calculate_task_shift_delta returns (newEnd - oldEnd, oldStart) when
   both end dates are set and differ, whatever the start dates are; otherwise
   (newStart - oldStart, oldStart) when both start dates are set and differ;
   otherwise (0, null). *)
C8_EndDeltaHasPriority ==
    (h.fn = "calculate_task_shift_delta" /\ h.step = 1) =>
        LET oldStart == h.args[1]
            oldEnd == h.args[2]
            newStart == h.args[3]
            newEnd == h.args[4]
        IN IF oldEnd # Null /\ newEnd # Null /\ newEnd # oldEnd
           THEN h.ret = <<newEnd - oldEnd, oldStart>>
           ELSE IF oldStart # Null /\ newStart # Null /\ newStart # oldStart
           THEN h.ret = <<newStart - oldStart, oldStart>>
           ELSE h.ret = <<0, Null>>

\* start and end moved by different amounts and the end-based delta came back
C8_Witness ==
    /\ h.fn = "calculate_task_shift_delta" /\ h.step = 1
    /\ h.args[1] # Null /\ h.args[2] # Null /\ h.args[3] # Null /\ h.args[4] # Null
    /\ h.args[3] - h.args[1] # 0
    /\ h.args[4] - h.args[2] # 0
    /\ h.args[3] - h.args[1] # h.args[4] - h.args[2]
    /\ h.ret = <<h.args[4] - h.args[2], h.args[1]>>

(* C9: every list find_subsequent_tasks(project, reference, edited) may
   return holds exactly the tasks of that project, stage-owned or directly
   under a macrostage, whose start_date is set and strictly after reference,
   without the edited task, each once, ordered by start_date then position;
   with a null reference the list is empty. *)
C9_SubsequentExact ==
    (h.fn = "find_subsequent_tasks" /\ h.step = 1) =>
        LET T == FindTasks(h.args[1])
            p == h.args[2]
            ref == h.args[3]
            edited == h.args[4]
            lists == h.ret
            expected == {t \in DOMAIN T :
                            /\ FindMacrostages[T[t].macrostage_id].project_id = p
                            /\ T[t].start_date # Null
                            /\ T[t].start_date > ref
                            /\ t # edited}
        IN /\ lists # {}
           /\ \A q \in lists :
                 IF ref = Null THEN q = <<>>
                 ELSE /\ {q[i] : i \in DOMAIN q} = expected
                      /\ Len(q) = Cardinality(expected)
                      /\ \A i \in DOMAIN q, j \in DOMAIN q :
                            i < j =>
                               \/ T[q[i]].start_date < T[q[j]].start_date
                               \/ /\ T[q[i]].start_date = T[q[j]].start_date
                                  /\ T[q[i]].position <= T[q[j]].position

\* the query of project 1 returned the stage-owned task 1 after the directly
\* owned task 2, which starts on the same day in the first position of its
\* container, and left out task 3, which starts after the reference in project 2
C9_Witness ==
    /\ h.fn = "find_subsequent_tasks" /\ h.step = 1
    /\ h.args[2] = 1 /\ h.args[3] = Epoch /\ h.args[4] = 0
    /\ h.args[1][1] = <<1, Epoch + 1, 2>>
    /\ h.args[1][2] = <<2, Epoch + 1, 1>>
    /\ h.args[1][3] = <<3, Epoch + 1, 1>>
    /\ h.ret = {<<2, 1>>}

(* C10: recalculate_stage and recalculate_project fold the two bounds
   independently: start_date becomes the least non-null start date of the
   children and end_date the greatest non-null end date; a child with a null
   date is left out of that bound only, and a bound no child contributes to,
   as with no children at all, becomes null. *)
C10_FoldsAreIndependent ==
    (h.fn \in {"recalculate_stage", "recalculate_project"} /\ h.step = 1) =>
        /\ IsEarliest(h.ret.start_date, {h.args[i][1] : i \in DOMAIN h.args})
        /\ IsLatest(h.ret.end_date, {h.args[i][2] : i \in DOMAIN h.args})

\* a stage was recalculated whose only start date comes from a task without
\* end date and whose only end date comes from a task without start date
C10_Witness ==
    /\ h.fn = "recalculate_stage" /\ h.step = 1
    /\ \E i \in DOMAIN h.args, j \in DOMAIN h.args :
          /\ h.args[i][1] # Null /\ h.args[i][2] = Null
          /\ h.args[j][1] = Null /\ h.args[j][2] # Null
          /\ \A k \in DOMAIN h.args \ {i, j} : h.args[k] = <<Null, Null>>
    /\ h.ret.start_date # Null /\ h.ret.end_date # Null

(* C11: recalculate_macrostage sets start_date to the least of the stored
   start dates of the macrostage's stages and of the start dates of the tasks
   the macrostage owns directly (no stage), and end_date to the greatest of
   the corresponding end dates; a task of a stage counts only through the
   stored range of its stage. *)
C11_MacrostagePoolsStagesAndDirectTasks ==
    \A m \in DOMAIN macrostages :
        LET row == recalculate_macrostage(tasks, stages, macrostages, m)[m]
            direct == {t \in TasksOfMacrostage(m) : tasks[t].stage_id = 0}
        IN /\ IsEarliest(row.start_date,
                         {stages[s].start_date : s \in StagesOfMacrostage(m)}
                            \cup {tasks[t].start_date : t \in direct})
           /\ IsLatest(row.end_date,
                       {stages[s].end_date : s \in StagesOfMacrostage(m)}
                          \cup {tasks[t].end_date : t \in direct})

(* C13: calculate_automatic_status returns one of three labels: 'A iniciar'
   when start_date is null or after today, whatever end_date is; otherwise
   'Concluído' when end_date is set and before today; otherwise 'Em
   andamento', which covers no end_date and end_date = today. *)
C13_AutomaticStatusPrecedence ==
    (h.fn = "calculate_automatic_status" /\ h.step = 1) =>
        LET start_date == h.args[1]
            end_date == h.args[2]
            now == h.args[3]
            to_start == start_date = Null \/ start_date > now
            ended == end_date # Null /\ end_date < now
        IN /\ h.ret \in {"A iniciar", "Concluído", "Em andamento"}
           /\ to_start => h.ret = "A iniciar"
           /\ (~to_start /\ ended) => h.ret = "Concluído"
           /\ (~to_start /\ ~ended) => h.ret = "Em andamento"

\* a project without start date whose end date is past came back 'A iniciar'
C13_Witness ==
    /\ h.fn = "calculate_automatic_status" /\ h.step = 1
    /\ h.args[1] = Null
    /\ h.args[2] # Null /\ h.args[2] < h.args[3]
    /\ h.ret = "A iniciar"

(* C14: get_project_status of a stored project returns status_manual_value
   with is_manual = true when status_manual is true; otherwise is_manual =
   false and the automatic status of the project's stored dates on the
   current day, whatever the stored status field holds. *)
C14_EffectiveStatus ==
    \A p \in DOMAIN projects :
        LET r == get_project_status(projects[p], today)
            manual == hasattr(projects[p], "status_manual") /\ projects[p].status_manual
        IN /\ ~r.raised
           /\ IF manual
              THEN r.is_manual /\ r.value = projects[p].status_manual_value
              ELSE /\ ~r.is_manual
                   /\ r.value = IF projects[p].start_date = Null \/ projects[p].start_date > today
                                THEN "A iniciar"
                                ELSE IF projects[p].end_date # Null /\ projects[p].end_date < today
                                THEN "Concluído"
                                ELSE "Em andamento"

(* C15: calculate_stage_status is the result of these rules in order: no
   task, or no task with a start date: 'A iniciar'; every start date after
   today: 'A iniciar'; every task has an end date and every end date is on or
   before today: 'Concluído'; otherwise 'Em andamento'. *)
C15_StageStatusRules ==
    (h.fn = "calculate_stage_status" /\ h.step = 1) =>
        LET c == h.args[1]
            now == h.args[2]
            starts == {c[i][1] : i \in DOMAIN c} \ {Null}
        IN IF c = <<>> \/ starts = {} THEN h.ret = "A iniciar"
           ELSE IF \A x \in starts : x > now THEN h.ret = "A iniciar"
           ELSE IF \A i \in DOMAIN c : c[i][2] # Null /\ c[i][2] <= now THEN h.ret = "Concluído"
           ELSE h.ret = "Em andamento"

\* a stage whose tasks all ended on or before today and have no start date
\* came back 'A iniciar'
C15_Witness ==
    /\ h.fn = "calculate_stage_status" /\ h.step = 1
    /\ h.args[1] # <<>>
    /\ \A i \in DOMAIN h.args[1] :
          /\ h.args[1][i][1] = Null
          /\ h.args[1][i][2] # Null /\ h.args[1][i][2] <= h.args[2]
    /\ h.ret = "A iniciar"

(* C16: calculate_project_progress(start, end, today) returns null when start
   or end is null; 0 when today < start; 100 when today > end or start = end;
   otherwise floor(100 * (today - start) / (end - start)); the result is in
   0..100, 0 at today = start and 100 at today = end. *)
C16_ProgressIsFloor ==
    (h.fn = "calculate_project_progress" /\ h.step = 1) =>
        LET start_date == h.args[1]
            end_date == h.args[2]
            now == h.args[3]
        IN IF start_date = Null \/ end_date = Null THEN h.ret = NoProgress
           ELSE /\ h.ret \in 0..100
                /\ h.ret = IF now < start_date THEN 0
                           ELSE IF now > end_date \/ start_date = end_date THEN 100
                           ELSE (100 * (now - start_date)) \div (end_date - start_date)

(* C18: with the current date fixed, after every completed mutating
   operation, project creation included, every project whose status is not
   manual stores the automatic status of its stored start_date and end_date.
   A project counts as manual by its status_manual, or, the attribute not
   being stored, by a stored status that only the manual choice writes. *)
C18_Manual(p) ==
    IF hasattr(projects[p], "status_manual") THEN projects[p].status_manual
    ELSE projects[p].status \in {"Suspenso", "Descartado"}

C18_StoredStatusInSync ==
    \A p \in DOMAIN projects :
        ~C18_Manual(p) =>
            projects[p].status = calculate_automatic_status(projects[p], today)

(* C19: a reorder with any list gives the positions 1, 2, 3, ... to the
   listed ids that are children of the scope, in list order, skipping
   unknown, malformed and repeated ids, then goes on with the children that
   are not listed in their previous (position, id) order; afterwards the
   positions of the N children are exactly 1..N and every other row is
   unchanged.  Stated of each of the four scopes of the stored tables. *)
C19_Reordered(rows, ids, order) ==
    LET new == reorder(rows, ids, order)
        first(i) == order[i] \in ids /\ \A j \in 1..(i - 1) : order[j] # order[i]
        listed == {order[i] : i \in {k \in DOMAIN order : first(k)}}
        before(d, c) == \/ rows[d].position < rows[c].position
                        \/ (rows[d].position = rows[c].position /\ d < c)
        rank(c) == IF c \in listed
                   THEN Cardinality({i \in DOMAIN order :
                           first(i) /\ \E k \in DOMAIN order : k >= i /\ first(k) /\ order[k] = c})
                   ELSE Cardinality(listed) + 1
                           + Cardinality({d \in ids \ listed : before(d, c)})
    IN /\ DOMAIN new = DOMAIN rows
       /\ \A c \in ids : new[c] = [rows[c] EXCEPT !.position = rank(c)]
       /\ \A c \in DOMAIN rows \ ids : new[c] = rows[c]
       /\ {new[c].position : c \in ids} = 1..Cardinality(ids)

C19_ReorderAssignsListThenRest ==
    /\ \A p \in DOMAIN projects, o \in Orders :
          C19_Reordered(macrostages, MacrostagesOfProject(p), o)
    /\ \A m \in DOMAIN macrostages, o \in Orders :
          C19_Reordered(stages, StagesOfMacrostage(m), o)
    /\ \A s \in DOMAIN stages, o \in Orders :
          C19_Reordered(tasks, TasksOfStage(s), o)
    /\ \A m \in DOMAIN macrostages, o \in Orders :
          C19_Reordered(tasks, {t \in TasksOfMacrostage(m) : tasks[t].stage_id = 0}, o)

\* after a reorder, the four macrostages of a template project stand in the
\* order 3, 1, 2, 4: the result of the list <<3, 1>>
C19_Witness ==
    /\ resp.kind = "json_ok"
    /\ {1, 2, 3, 4} = DOMAIN macrostages
    /\ \A m \in DOMAIN macrostages : macrostages[m].project_id = macrostages[1].project_id
    /\ macrostages[3].position = 1 /\ macrostages[1].position = 2
    /\ macrostages[2].position = 3 /\ macrostages[4].position = 4

(* C20: after any reorder and after any insert (create_macrostage,
   create_stage, create_task), in any sequence of creates, deletes and
   reorders, the positions of the children of the affected sibling scope are
   exactly 1..N, N being the number of children. *)
C20_Contiguous(rows, ids) == {rows[c].position : c \in ids} = 1..Cardinality(ids)

C20_PositionsContiguous ==
    [][/\ \A m \in DOMAIN macrostages' \ DOMAIN macrostages :
             C20_Contiguous(macrostages',
                            {k \in DOMAIN macrostages' :
                                macrostages'[k].project_id = macrostages'[m].project_id})
       /\ \A s \in DOMAIN stages' \ DOMAIN stages :
             C20_Contiguous(stages',
                            {k \in DOMAIN stages' :
                                stages'[k].macrostage_id = stages'[s].macrostage_id})
       /\ \A t \in DOMAIN tasks' \ DOMAIN tasks :
             C20_Contiguous(tasks',
                            {k \in DOMAIN tasks' :
                                /\ tasks'[k].macrostage_id = tasks'[t].macrostage_id
                                /\ tasks'[k].stage_id = tasks'[t].stage_id})
       /\ resp'.kind = "json_ok" =>
             /\ \A m \in DOMAIN macrostages :
                   macrostages'[m].position # macrostages[m].position =>
                      C20_Contiguous(macrostages',
                                     {k \in DOMAIN macrostages' :
                                         macrostages'[k].project_id = macrostages'[m].project_id})
             /\ \A s \in DOMAIN stages :
                   stages'[s].position # stages[s].position =>
                      C20_Contiguous(stages',
                                     {k \in DOMAIN stages' :
                                         stages'[k].macrostage_id = stages'[s].macrostage_id})
             /\ \A t \in DOMAIN tasks :
                   tasks'[t].position # tasks[t].position =>
                      C20_Contiguous(tasks',
                                     {k \in DOMAIN tasks' :
                                         /\ tasks'[k].macrostage_id = tasks'[t].macrostage_id
                                         /\ tasks'[k].stage_id = tasks'[t].stage_id})]_vars

(* C21: no MacroStage holds both a child Stage and a directly owned Task; a
   MacroStage with a child Stage has structure_type 'stages' and one with a
   direct Task has structure_type 'tasks'.  create_stage on a 'tasks'
   macrostage, a direct create_task on a 'stages' macrostage and
   set_macrostage_structure to a type whose disallowed children exist leave
   the store as it was. *)
C21_DirectTasks(m) == {t \in TasksOfMacrostage(m) : tasks[t].stage_id = 0}

C21_StructureExclusive ==
    \A m \in DOMAIN macrostages :
        /\ ~(StagesOfMacrostage(m) # {} /\ C21_DirectTasks(m) # {})
        /\ StagesOfMacrostage(m) # {} => macrostages[m].structure_type = "stages"
        /\ C21_DirectTasks(m) # {} => macrostages[m].structure_type = "tasks"

C21_RejectedLeaveStore ==
    \/ UNCHANGED store
    \/ /\ \A m \in DOMAIN macrostages :
             macrostages[m].structure_type = "tasks" => ~CreateStage(m)
       /\ \A m \in DOMAIN macrostages, sd \in NDays, ed \in NDays :
             macrostages[m].structure_type = "stages" => ~CreateTask(0, m, sd, ed)
       /\ \A m \in DOMAIN macrostages :
             /\ C21_DirectTasks(m) # {} => ~SetMacrostageStructure(m, "stages")
             /\ StagesOfMacrostage(m) # {} => ~SetMacrostageStructure(m, "tasks")

C21_StructureIsExclusive == []C21_StructureExclusive /\ [][C21_RejectedLeaveStore]_vars

\* one macrostage of stages whose stage holds a task, next to one of direct tasks
C21_Witness ==
    \E m1 \in DOMAIN macrostages, m2 \in DOMAIN macrostages :
        /\ macrostages[m1].structure_type = "stages"
        /\ \E s \in StagesOfMacrostage(m1) : TasksOfStage(s) # {}
        /\ macrostages[m2].structure_type = "tasks"
        /\ C21_DirectTasks(m2) # {}

(* C23: adding a WeeklyUpdate to a Task (create_weekly_update) runs the
   aggregation cascade: when it completes, the task's Stage (or its MacroStage
   when it has no Stage), the owning MacroStage and the Project have derived
   dates equal to the fold over their current children, whatever their stored
   values were before the add. *)
C23_WeeklyUpdateRunsCascade ==
    [][\A w \in DOMAIN weekly_updates' \ DOMAIN weekly_updates, t \in DOMAIN tasks,
          s \in DOMAIN stages \cup {0}, m \in DOMAIN macrostages, p \in DOMAIN projects :
          (/\ weekly_updates'[w].task_id = t
           /\ tasks[t].stage_id = s
           /\ tasks[t].macrostage_id = m
           /\ macrostages[m].project_id = p) =>
              /\ s # 0 => StageIsFold(s)'
              /\ MacrostageIsFold(m)'
              /\ ProjectIsFold(p)']_vars

(* C24: a create_task or update_task whose parsed start_date is greater than
   its parsed end_date persists nothing: the task is not created, or keeps its
   previous name and dates, and no MacroStage structure_type, derived date or
   project status changes. *)
C24_InvalidDatesPersistNothing ==
    [][\/ UNCHANGED store
       \/ /\ \A t \in DOMAIN tasks, n \in EditNames, sd \in Days, ed \in Days :
                sd > ed => ~UpdateTaskNamed(t, n, sd, ed)
          /\ \A s \in DOMAIN stages \cup {0}, m \in DOMAIN macrostages, sd \in Days, ed \in Days :
                sd > ed => ~CreateTask(s, m, sd, ed)]_vars

\* the error answer of an update_task (the store is full, no task can be
\* created) whose form carried another name, on a task that has two dates
C24_Witness ==
    /\ resp.kind = "error"
    /\ NextId(tasks) > MaxTasks
    /\ \E t \in DOMAIN tasks :
          /\ tasks[t].name = "T"
          /\ tasks[t].start_date # Null /\ tasks[t].end_date # Null

(* C26, as stated: every Stage, MacroStage and Project whose derived
   start_date and end_date are both non-null has start_date <= end_date, every
   Task having start_date <= end_date when both are set and being free to
   carry only one of the two dates.  No request commits a derived date (the
   cascade ends at line 367 before its commit), so the statement is read of
   the range recalculate_stage computes for a Stage whose tasks satisfy the
   validation. *)
C26_Ordered(row) ==
    (row.start_date # Null /\ row.end_date # Null) => row.start_date <= row.end_date

C29_StartedBranchIsInProgress ==
    (h.fn = "calculate_stage_status_return" /\ h.step = 1) =>
        LET c == h.args[1]
            T == [i \in DOMAIN c |-> [TaskRow(c[i][1], c[i][2]) EXCEPT !.position = i]]
        IN /\ h.ret.line \in {276, 278} =>
                 /\ \E i \in DOMAIN c : c[i][1] = Null \/ c[i][2] = Null
                 /\ h.ret.value = "Em andamento"
           /\ h.ret.line # 276
           /\ h.ret.value = "Concluído" => h.ret.line = 246
           /\ h.ret.line # 281
           /\ h.ret.value = calculate_stage_status(T, 1, h.args[2])

\* the branch was taken: a started task that ended, next to a task without dates
C29_Witness ==
    /\ h.fn = "calculate_stage_status_return" /\ h.step = 1
    /\ h.ret.line = 278
    /\ \E i \in DOMAIN h.args[1] : h.args[1][i][1] # Null /\ h.args[1][i][2] # Null
    /\ \E i \in DOMAIN h.args[1] : h.args[1][i] = <<Null, Null>>

(* C30: the third rule of calculate_task_shift_delta (both dates changed with
   different non-zero deltas) never decides the result: for every input the
   function equals the two-rule function 'end-based delta if both ends are
   non-null and differ, else start-based delta if both starts are non-null
   and differ, else (0, null)'; a zero delta always comes with a null
   reference, and a non-null reference always comes with a non-zero delta. *)
C30_TwoRules(oldStart, oldEnd, newStart, newEnd) ==
    IF oldEnd # Null /\ newEnd # Null /\ newEnd # oldEnd
    THEN <<newEnd - oldEnd, oldStart>>
    ELSE IF oldStart # Null /\ newStart # Null /\ newStart # oldStart
    THEN <<newStart - oldStart, oldStart>>
    ELSE <<0, Null>>

C30_ThirdRuleNeverDecides ==
    (h.fn = "calculate_task_shift_delta_return" /\ h.step = 1) =>
        /\ h.ret.line # 453
        /\ h.ret.value = C30_TwoRules(h.args[1], h.args[2], h.args[3], h.args[4])
        /\ h.ret.value = calculate_task_shift_delta(h.args[1], h.args[2], h.args[3], h.args[4])
        /\ (h.ret.value[1] = 0 => h.ret.value[2] = Null)
        /\ (h.ret.value[2] # Null => h.ret.value[1] # 0)

\* the condition of the third rule holds of the arguments and the first rule returned
C30_Witness ==
    /\ h.fn = "calculate_task_shift_delta_return" /\ h.step = 1
    /\ h.args[1] # Null /\ h.args[2] # Null /\ h.args[3] # Null /\ h.args[4] # Null
    /\ h.args[4] - h.args[2] # 0
    /\ h.args[3] - h.args[1] # 0
    /\ h.args[4] - h.args[2] # h.args[3] - h.args[1]
    /\ h.ret.line = 437

====
